---- MODULE Spec2Model ----
(***************************************************************************)
(* Model of main.py: one run of the flight notifier.                       *)
(*   main -> validate_env_vars -> FlightNotifier() -> search_flights       *)
(*        -> send_email                                                    *)
(* The Amadeus provider, the SMTP server and the process environment are   *)
(* the environment of the program: their answers are chosen                *)
(* nondeterministically.                                                   *)
(***************************************************************************)
EXTENDS Integers, Sequences, FiniteSets, TLC

VARIABLES
    env,            \* os.environ restricted to REQUIRED_ENV_VARS
    pc,             \* position of main(): validate, init, search, send_email, done, crashed
    amadeus,        \* TRUE once self.amadeus holds a constructed Client
    oi,             \* index of `origin` in CONFIG['ORIGIN_AIRPORTS'] (outer loop)
    di,             \* index of `destination` in CONFIG['DESTINATION_AIRPORTS'] (inner loop)
    found_flights,  \* local list of search_flights
    returned,       \* TRUE once search_flights has returned to main
    flights,        \* main's local `flights` (meaningful once returned)
    queries,        \* requests received by the provider, in order
    responses,      \* the provider's answer to each request, in order
    logs,           \* records emitted through logging, in order
    sendCalls,      \* number of server.send_message calls
    outbox,         \* messages delivered by the SMTP server
    mainExc,        \* exception that reached main's try block ("None" if none)
    escaped         \* TRUE if an exception propagated out of main

vars == <<env, pc, amadeus, oi, di, found_flights, returned, flights,
          queries, responses, logs, sendCalls, outbox, mainExc, escaped>>

----------------------------------------------------------------------------
(* Bounds of the model *)

\* the provider returns at most this many offers over one run
MaxFlights == 3

----------------------------------------------------------------------------
(* Program constants *)

REQUIRED_ENV_VARS ==
    <<"AMADEUS_CLIENT_ID", "AMADEUS_CLIENT_SECRET", "SENDER_EMAIL",
      "SENDER_EMAIL_PASSWORD", "RECIPIENT_EMAIL">>

ORIGIN_AIRPORTS == <<"LGA", "JFK">>
DESTINATION_AIRPORTS == <<"OAK", "SJC">>
AIRLINES == <<"B6", "UA", "AA">>
MAX_PRICE == 500
DAYS_AHEAD == 1

\* the values os.getenv can give for a variable: unset, empty, or a value
EnvValues == {"<unset>", "", "value"}

Range(s) == {s[i] : i \in DOMAIN s}

----------------------------------------------------------------------------
(* logging *)

LogError(m) == [level |-> "ERROR", msg |-> m]
LogInfo(m) == [level |-> "INFO", msg |-> m]

----------------------------------------------------------------------------
(* validate_env_vars *)

\* os.getenv(var) is falsy when the variable is unset or empty
Falsy(v) == v \in {"<unset>", ""}

RECURSIVE FilterMissing(_, _)
FilterMissing(e, vs) ==
    IF vs = <<>> THEN <<>>
    ELSE (IF Falsy(e[Head(vs)]) THEN <<Head(vs)>> ELSE <<>>)
         \o FilterMissing(e, Tail(vs))

\* variant: the last required variable is not checked
MissingVars_SkipLast(e) ==
    FilterMissing(e, SubSeq(REQUIRED_ENV_VARS, 1, Len(REQUIRED_ENV_VARS) - 1))

\* missing_vars = [var for var in REQUIRED_ENV_VARS if not os.getenv(var)]
MissingVars(e) == FilterMissing(e, REQUIRED_ENV_VARS)

----------------------------------------------------------------------------
(* exception handlers *)

Exceptions == {"ValueError", "ClientInitError", "ResponseError", "Other",
               "KeyError", "IndexError", "SMTPException"}

\* variant: no handler around the provider call
SearchCatches_Nothing(e) == FALSE

\* variant: a handler for every exception around the provider call
SearchCatches_Everything(e) == e \in Exceptions

\* `except ResponseError as error` in search_flights
SearchCatches(e) == e = "ResponseError"

\* `except Exception as e` in send_email
SendCatches(e) == e \in Exceptions

\* variant: main handles ValueError only
MainCatches_ValueErrorOnly(e) == e = "ValueError"

\* `except Exception as e` in main
MainCatches(e) == e \in Exceptions

\* An exception e reaches the try block of main while the log is lg:
\* the handler logs it and main returns; otherwise it leaves main.
MainRaise(e, lg) ==
    /\ mainExc' = e
    /\ IF MainCatches(e)
       THEN /\ logs' = Append(lg, LogError(<<"Unexpected error in main function", e>>))
            /\ pc' = "done"
            /\ escaped' = escaped
       ELSE /\ logs' = lg
            /\ pc' = "crashed"
            /\ escaped' = TRUE

----------------------------------------------------------------------------
(* search_flights *)

\* ','.join(CONFIG['AIRLINES'])
RECURSIVE Join(_, _)
Join(sep, s) ==
    IF s = <<>> THEN <<>>
    ELSE IF Len(s) = 1 THEN <<s[1]>>
    ELSE <<s[1], sep>> \o Join(sep, Tail(s))

\* variant: destinations in the outer loop
PairAt_DestinationMajor(o, d) == <<ORIGIN_AIRPORTS[d], DESTINATION_AIRPORTS[o]>>

\* the pair of the current iteration of the nested loops
PairAt(o, d) == <<ORIGIN_AIRPORTS[o], DESTINATION_AIRPORTS[d]>>

\* keyword arguments of flight_offers_search.get
Request(pair) ==
    [originLocationCode |-> pair[1],
     destinationLocationCode |-> pair[2],
     departureDate |-> <<"today+", DAYS_AHEAD>>,
     adults |-> 1,
     max |-> 10,
     nonStop |-> TRUE,
     includedAirlineCodes |-> Join(",", AIRLINES),
     maxPrice |-> MAX_PRICE]

\* variant: new offers are put in front
Extend_Prepend(acc, data) == data \o acc

\* found_flights.extend(response.data)
Extend(acc, data) == acc \o data

\* Offers the provider may return for a pair.  An offer is a dict: a key
\* that is absent is absent from the DOMAIN of the record.  `nonstop` is
\* the itinerary shape of the offer; the program never reads it.
WellFormed(pair, airline, total, ns) ==
    [originLocationCode |-> pair[1],
     destinationLocationCode |-> pair[2],
     validatingAirlineCodes |-> <<airline>>,
     price |-> [total |-> total],
     nonstop |-> ns]

\* the key that the malformed offer of the k-th pair lacks
DroppedKeys ==
    <<"originLocationCode", "destinationLocationCode",
      "validatingAirlineCodes", "price">>

DroppedKey(pair) ==
    LET k == CHOOSE n \in 1..(Len(ORIGIN_AIRPORTS) * Len(DESTINATION_AIRPORTS)) :
               pair = <<ORIGIN_AIRPORTS[((n - 1) \div Len(DESTINATION_AIRPORTS)) + 1],
                        DESTINATION_AIRPORTS[((n - 1) % Len(DESTINATION_AIRPORTS)) + 1]>>
    IN  DroppedKeys[((k - 1) % Len(DroppedKeys)) + 1]

\* the dict f without key
Without(f, key) == [k \in DOMAIN f \ {key} |-> f[k]]

\* two nonstop offers, a connecting one, and one that lacks a key
OfferUniverse(pair) ==
    { WellFormed(pair, "B6", "420.00", TRUE),
      WellFormed(pair, "UA", "480.00", TRUE),
      WellFormed(pair, "AA", "450.00", FALSE),
      Without(WellFormed(pair, "B6", "410.00", TRUE), DroppedKey(pair)) }

\* lists of at most n offers for a pair
RECURSIVE OfferLists(_, _)
OfferLists(pair, n) ==
    IF n = 0 THEN {<<>>}
    ELSE LET shorter == OfferLists(pair, n - 1)
         IN  shorter \cup
             {Append(s, o) : s \in {t \in shorter : Len(t) = n - 1},
                             o \in OfferUniverse(pair)}

\* what one call of flight_offers_search.get can do
ProviderAnswers(pair, n) ==
    {[kind |-> "data", data |-> d] : d \in OfferLists(pair, n)}
    \cup {[kind |-> "raise", exc |-> "ResponseError"],
          [kind |-> "raise", exc |-> "Other"]}

----------------------------------------------------------------------------
(* send_email *)

\* variant: no early return for an empty list
NoFlights_Never(fl) == FALSE

\* `if not flights`
NoFlights(fl) == fl = <<>>

\* the exception, if any, that formatting one offer raises
FormatError(f) ==
    IF "originLocationCode" \notin DOMAIN f THEN "KeyError"
    ELSE IF "destinationLocationCode" \notin DOMAIN f THEN "KeyError"
    ELSE IF "validatingAirlineCodes" \notin DOMAIN f THEN "KeyError"
    ELSE IF Len(f.validatingAirlineCodes) = 0 THEN "IndexError"
    ELSE IF "price" \notin DOMAIN f THEN "KeyError"
    ELSE IF "total" \notin DOMAIN f.price THEN "KeyError"
    ELSE "None"

\* the three lines appended to body for one offer
Block(f) ==
    << <<"From: ", f.originLocationCode, " To: ", f.destinationLocationCode, "\n">>,
       <<"Airline: ", f.validatingAirlineCodes[1], "\n">>,
       <<"Price: $", f.price.total, "\n\n">> >>

\* f"Flight Alert: {len(flights)} Direct Flights Found!"
Subject(fl) == <<"Flight Alert: ", Len(fl), " Direct Flights Found!">>

\* variant: the blocks are written last offer first
RECURSIVE Body_Reversed(_)
Body_Reversed(fl) ==
    IF fl = <<>> THEN << <<"Direct Flights Found:\n\n">> >>
    ELSE Body_Reversed(Tail(fl)) \o Block(Head(fl))

\* body = "Direct Flights Found:\n\n" followed by one block per flight
RECURSIVE Body(_)
Body(fl) ==
    IF fl = <<>> THEN << <<"Direct Flights Found:\n\n">> >>
    ELSE Body(SubSeq(fl, 1, Len(fl) - 1)) \o Block(fl[Len(fl)])

\* first exception raised while building the body, "None" if none
RECURSIVE ComposeError(_)
ComposeError(fl) ==
    IF fl = <<>> THEN "None"
    ELSE IF FormatError(Head(fl)) # "None" THEN FormatError(Head(fl))
    ELSE ComposeError(Tail(fl))

Message(fl) ==
    [From |-> <<"SENDER_EMAIL", env["SENDER_EMAIL"]>>,
     To |-> <<"RECIPIENT_EMAIL", env["RECIPIENT_EMAIL"]>>,
     Subject |-> Subject(fl),
     body |-> Body(fl)]

\* outcomes of the `with smtplib.SMTP(...)` block
SmtpOutcomes == {"connect_failed", "starttls_failed", "login_failed",
                 "send_failed", "sent"}

----------------------------------------------------------------------------
(* Initial state *)

Init ==
    /\ env \in [Range(REQUIRED_ENV_VARS) -> EnvValues]
    /\ pc = "validate"
    /\ amadeus = FALSE
    /\ oi = 1
    /\ di = 1
    /\ found_flights = <<>>
    /\ returned = FALSE
    /\ flights = <<>>
    /\ queries = <<>>
    /\ responses = <<>>
    /\ logs = <<>>
    /\ sendCalls = 0
    /\ outbox = <<>>
    /\ mainExc = "None"
    /\ escaped = FALSE

----------------------------------------------------------------------------
(* Actions *)

\* main: validate_env_vars()
ValidateEnvVars ==
    /\ pc = "validate"
    /\ IF MissingVars(env) # <<>>
       THEN MainRaise("ValueError", logs)
       ELSE /\ pc' = "init"
            /\ UNCHANGED <<logs, mainExc, escaped>>
    /\ UNCHANGED <<env, amadeus, oi, di, found_flights, returned, flights,
                   queries, responses, sendCalls, outbox>>

\* main: notifier = FlightNotifier(); the Client constructor may raise
InitNotifier ==
    /\ pc = "init"
    /\ \E ok \in BOOLEAN :
         IF ok
         THEN /\ amadeus' = TRUE
              /\ pc' = "search"
              /\ UNCHANGED <<logs, mainExc, escaped>>
         ELSE /\ amadeus' = amadeus
              /\ MainRaise("ClientInitError",
                    Append(logs, LogError(<<"Failed to initialize Amadeus client",
                                            "ClientInitError">>)))
    /\ UNCHANGED <<env, oi, di, found_flights, returned, flights,
                   queries, responses, sendCalls, outbox>>

\* search_flights: one iteration of the nested loops
QueryPair ==
    /\ pc = "search"
    /\ oi <= Len(ORIGIN_AIRPORTS)
    /\ LET pair == PairAt(oi, di)
       IN \E r \in ProviderAnswers(pair, MaxFlights - Len(found_flights)) :
            /\ queries' = Append(queries, Request(pair))
            /\ responses' = Append(responses, r)
            /\ IF r.kind = "data"
               THEN /\ IF r.data # <<>>
                       THEN /\ logs' = Append(logs,
                                 LogInfo(<<"Found", Len(r.data), pair[1], pair[2]>>))
                            /\ found_flights' = Extend(found_flights, r.data)
                       ELSE UNCHANGED <<logs, found_flights>>
                    /\ UNCHANGED <<pc, mainExc, escaped>>
               ELSE IF SearchCatches(r.exc)
               THEN /\ logs' = Append(logs,
                         LogError(<<"Error searching flights", pair[1], pair[2], r.exc>>))
                    /\ UNCHANGED <<found_flights, pc, mainExc, escaped>>
               ELSE /\ MainRaise(r.exc, logs)
                    /\ UNCHANGED found_flights
            /\ IF r.kind = "raise" /\ ~SearchCatches(r.exc)
               THEN UNCHANGED <<oi, di>>
               ELSE IF di < Len(DESTINATION_AIRPORTS)
               THEN /\ di' = di + 1
                    /\ oi' = oi
               ELSE /\ di' = 1
                    /\ oi' = oi + 1
    /\ UNCHANGED <<env, amadeus, returned, flights, sendCalls, outbox>>

\* search_flights: return found_flights; main: flights = ...
SearchReturn ==
    /\ pc = "search"
    /\ oi > Len(ORIGIN_AIRPORTS)
    /\ flights' = found_flights
    /\ returned' = TRUE
    /\ pc' = "send_email"
    /\ UNCHANGED <<env, amadeus, oi, di, found_flights, queries, responses,
                   logs, sendCalls, outbox, mainExc, escaped>>

\* an exception e raised inside the try block of send_email, log being lg
SendRaise(e, lg) ==
    IF SendCatches(e)
    THEN /\ logs' = Append(lg, LogError(<<"Error sending email", e>>))
         /\ pc' = "done"
         /\ UNCHANGED <<mainExc, escaped>>
    ELSE MainRaise(e, lg)

\* main: notifier.send_email(flights)
SendEmail ==
    /\ pc = "send_email"
    /\ IF NoFlights(flights)
       THEN /\ logs' = Append(logs, LogInfo(<<"No flights found. No email sent.">>))
            /\ pc' = "done"
            /\ UNCHANGED <<sendCalls, outbox, mainExc, escaped>>
       ELSE IF ComposeError(flights) # "None"
       THEN /\ SendRaise(ComposeError(flights), logs)
            /\ UNCHANGED <<sendCalls, outbox>>
       ELSE \E smtp \in SmtpOutcomes :
              IF smtp = "sent"
              THEN /\ sendCalls' = sendCalls + 1
                   /\ outbox' = Append(outbox, Message(flights))
                   /\ logs' = Append(logs, LogInfo(<<"Email sent successfully!">>))
                   /\ pc' = "done"
                   /\ UNCHANGED <<mainExc, escaped>>
              ELSE /\ sendCalls' = IF smtp = "send_failed" THEN sendCalls + 1
                                   ELSE sendCalls
                   /\ outbox' = outbox
                   /\ SendRaise("SMTPException", logs)
    /\ UNCHANGED <<env, amadeus, oi, di, found_flights, returned, flights,
                   queries, responses>>

Next ==
    \/ ValidateEnvVars
    \/ InitNotifier
    \/ QueryPair
    \/ SearchReturn
    \/ SendEmail

Spec == Init /\ [][Next]_vars

\* main runs sequentially to its end: every call returns or raises
FairSpec == Spec /\ WF_vars(Next)

----------------------------------------------------------------------------
(* Helpers for the properties *)

NumPairs == Len(ORIGIN_AIRPORTS) * Len(DESTINATION_AIRPORTS)

\* the k-th pair in origin-major order
OriginMajor(k) ==
    <<ORIGIN_AIRPORTS[((k - 1) \div Len(DESTINATION_AIRPORTS)) + 1],
      DESTINATION_AIRPORTS[((k - 1) % Len(DESTINATION_AIRPORTS)) + 1]>>

IsData(r) == r.kind = "data"
IsRaise(r, e) == r.kind = "raise" /\ r.exc = e

\* some provider call raised something else than ResponseError
OtherRaised == \E k \in DOMAIN responses : IsRaise(responses[k], "Other")

\* the offer lists of the successful answers, flattened in answer order
RECURSIVE Flatten(_)
Flatten(rs) ==
    IF rs = <<>> THEN <<>>
    ELSE (IF IsData(Head(rs)) THEN Head(rs).data ELSE <<>>) \o Flatten(Tail(rs))

ErrorLogs == {i \in DOMAIN logs : logs[i].level = "ERROR"}

LastLog == logs[Len(logs)]

\* an offer that has every field the notification prints
HasAllFields(f) ==
    /\ {"originLocationCode", "destinationLocationCode",
        "validatingAirlineCodes", "price"} \subseteq DOMAIN f
    /\ f.validatingAirlineCodes # <<>>
    /\ "total" \in DOMAIN f.price

----------------------------------------------------------------------------
(* Properties *)

\* C1: with a valid configuration and provider calls that return or raise
\* ResponseError, search_flights issues exactly N*M queries, one per pair,
\* in origin-major order, none repeated and none skipped.
C1_QueriesOriginMajor ==
    /\ Len(queries) <= NumPairs
    /\ \A k \in DOMAIN queries :
         <<queries[k].originLocationCode, queries[k].destinationLocationCode>>
            = OriginMajor(k)
    /\ (returned => Len(queries) = NumPairs)
    /\ (pc = "done" /\ amadeus /\ ~OtherRaised => returned)

C1_Witness ==
    /\ returned
    /\ Len(queries) = NumPairs
    /\ \E k \in DOMAIN responses : IsRaise(responses[k], "ResponseError")
    /\ \E k \in DOMAIN responses : IsData(responses[k]) /\ responses[k].data # <<>>

\* C2: a ResponseError for one pair does not abort search_flights: the
\* later pairs are still queried and the offers of the earlier and of the
\* later pairs are all in the returned result.
C2_FailureIsolation ==
    \A k \in DOMAIN responses :
      IsRaise(responses[k], "ResponseError") =>
        /\ mainExc # "ResponseError"
        /\ pc \in {"search", "send_email", "done"}
        /\ (pc # "search" /\ ~OtherRaised =>
               returned /\ Len(queries) = NumPairs)
        /\ \A j \in DOMAIN responses :
             IsData(responses[j]) =>
               /\ Range(responses[j].data) \subseteq Range(found_flights)
               /\ (returned => Range(responses[j].data) \subseteq Range(flights))

C2_Witness ==
    /\ returned
    /\ \E i, k, j \in DOMAIN responses :
         /\ i < k /\ k < j
         /\ IsData(responses[i]) /\ responses[i].data # <<>>
         /\ IsRaise(responses[k], "ResponseError")
         /\ IsData(responses[j]) /\ responses[j].data # <<>>

\* C3: send_message is called at most once per run, only after every pair
\* was queried and only for a non-empty result; when every query fails or
\* returns nothing it is never called and the run does not crash.
C3_NotifierAtMostOnce ==
    /\ sendCalls <= 1
    /\ Len(outbox) <= sendCalls
    /\ (sendCalls = 1 =>
          /\ returned
          /\ Len(queries) = NumPairs
          /\ flights # <<>>
          /\ pc = "done")
    /\ ((\A k \in DOMAIN responses :
            ~IsData(responses[k]) \/ responses[k].data = <<>>) =>
          /\ sendCalls = 0
          /\ ~escaped
          /\ pc # "crashed"
          /\ (returned => flights = <<>>))

C3_Witness ==
    /\ pc = "done"
    /\ sendCalls = 1
    /\ Len(outbox) = 1
    /\ \E k \in DOMAIN responses : IsRaise(responses[k], "ResponseError")

\* C4: the result of search_flights is the concatenation, in pair order, of
\* the offer lists of the successful queries, each in provider order, with
\* nothing removed, added, reordered or deduplicated.
C4_ResultIsConcatenation ==
    /\ found_flights = Flatten(responses)
    /\ (returned => flights = Flatten(responses))
    /\ (returned =>
          \A k \in DOMAIN responses :
            (/\ IsData(responses[k])
             /\ \A j \in DOMAIN responses \ {k} :
                  ~IsData(responses[j]) \/ responses[j].data = <<>>)
            => flights = responses[k].data)

C4_Witness ==
    /\ returned
    /\ \E i, j \in DOMAIN responses :
         /\ i < j
         /\ IsData(responses[i]) /\ Len(responses[i].data) = 2
         /\ responses[i].data[1] # responses[i].data[2]
         /\ IsData(responses[j]) /\ Len(responses[j].data) = 1

\* C5 (as claimed): no offer with nonstop = false is in the result of
\* search_flights or in a delivered notification.
C5_NonstopOnly ==
    /\ \A i \in DOMAIN found_flights : found_flights[i].nonstop
    /\ (returned => \A i \in DOMAIN flights : flights[i].nonstop)
    /\ (outbox # <<>> => \A i \in DOMAIN flights : flights[i].nonstop)

\* C6 (as claimed): an offer with a missing field is left out of the
\* result, the run does not crash, and the well-formed offers returned with
\* it are still notified unless the delivery itself fails.
C6_MalformedExcluded ==
    /\ ~escaped
    /\ (returned => \A i \in DOMAIN flights : HasAllFields(flights[i]))
    /\ (/\ pc = "done"
        /\ returned
        /\ \E k \in DOMAIN responses :
             /\ IsData(responses[k])
             /\ \E i \in DOMAIN responses[k].data : HasAllFields(responses[k].data[i])
        => \/ outbox # <<>>
           \/ LastLog = LogError(<<"Error sending email", "SMTPException">>))

\* C7: when a required environment variable is unset or empty, no query is
\* issued, the Client is never constructed, nothing is sent, and the run
\* ends with exactly one log entry, the error reported by main.
C7_ConfigErrorFatal ==
    (\E v \in Range(REQUIRED_ENV_VARS) : env[v] \in {"<unset>", ""}) =>
        /\ queries = <<>>
        /\ ~amadeus
        /\ sendCalls = 0
        /\ outbox = <<>>
        /\ pc \in {"validate", "done"}
        /\ (pc = "validate" => logs = <<>>)
        /\ (pc = "done" =>
              /\ Cardinality(ErrorLogs) = 1
              /\ logs = <<LogError(<<"Unexpected error in main function", "ValueError">>)>>)

C7_Witness ==
    /\ pc = "done"
    /\ env["RECIPIENT_EMAIL"] = "<unset>"
    /\ \A v \in Range(REQUIRED_ENV_VARS) \ {"RECIPIENT_EMAIL"} : env[v] = "value"
    /\ Len(logs) = 1

\* every failure of the run has its error entry in the log
C8_Logged ==
    /\ (mainExc # "None" =>
          LastLog = LogError(<<"Unexpected error in main function", mainExc>>))
    /\ \A k \in DOMAIN responses :
         IsRaise(responses[k], "ResponseError") =>
           \E i \in DOMAIN logs :
             logs[i] = LogError(<<"Error searching flights",
                                  queries[k].originLocationCode,
                                  queries[k].destinationLocationCode,
                                  "ResponseError">>)
    /\ (returned /\ flights # <<>> /\ outbox = <<>> =>
          LastLog.level = "ERROR" /\ LastLog.msg[1] = "Error sending email")

\* C8: every run of main ends normally: whatever fails (configuration,
\* Client construction, provider errors, another exception of a provider
\* call, delivery), it is caught and logged and nothing leaves main.
C8_AlwaysCompletes == <>(pc = "done" /\ ~escaped /\ C8_Logged)

C8_Witness ==
    /\ pc = "done"
    /\ ~escaped
    /\ returned
    /\ \E k \in DOMAIN responses : IsRaise(responses[k], "ResponseError")
    /\ LastLog = LogError(<<"Error sending email", "SMTPException">>)

\* C9: a delivered notification has the number of offers in its subject and
\* a body of one block per offer, in result order, each block giving
\* origin, destination, airline and total price in that order; composing
\* again from the same result gives the same message.
C9_MessageShape ==
    \A m \in Range(outbox) :
        /\ m.Subject = <<"Flight Alert: ", Len(flights), " Direct Flights Found!">>
        /\ Len(m.body) = 1 + 3 * Len(flights)
        /\ m.body[1] = <<"Direct Flights Found:\n\n">>
        /\ \A i \in DOMAIN flights :
             /\ m.body[3 * i - 1] = <<"From: ", flights[i].originLocationCode,
                                      " To: ", flights[i].destinationLocationCode, "\n">>
             /\ m.body[3 * i] = <<"Airline: ", flights[i].validatingAirlineCodes[1], "\n">>
             /\ m.body[3 * i + 1] = <<"Price: $", flights[i].price.total, "\n\n">>
        /\ m = Message(flights)

C9_Witness ==
    /\ Len(outbox) = 1
    /\ Len(flights) >= 2
    /\ flights[1] # flights[2]

\* C10: an exception of a provider call that is not a ResponseError stops
\* the pair loop there: no later pair is queried, search_flights does not
\* return, the offers collected so far never reach main or the Notifier,
\* and the exception is handled by main alone.
C10_OtherExceptionAborts ==
    \A k \in DOMAIN responses :
      IsRaise(responses[k], "Other") =>
        /\ k = Len(responses)
        /\ Len(queries) = k
        /\ ~returned
        /\ flights = <<>>
        /\ sendCalls = 0
        /\ outbox = <<>>
        /\ pc = "done"
        /\ mainExc = "Other"
        /\ LastLog = LogError(<<"Unexpected error in main function", "Other">>)
        /\ \A i \in DOMAIN logs : logs[i].msg[Len(logs[i].msg)] # "Other" \/ i = Len(logs)

C10_Witness ==
    /\ pc = "done"
    /\ mainExc = "Other"
    /\ found_flights # <<>>
    /\ Len(queries) \in 2..(NumPairs - 1)

====
